---- MODULE Spec2Model ----
(***************************************************************************)
(* Krishna Knowledge app: the quiz page (custom_pages/quiz.py) and the     *)
(* chat page (custom_pages/chatbot.py).                                    *)
(*                                                                         *)
(* The model has two layers.                                               *)
(*  - Python text is modelled by TLA+ strings: a response of the language  *)
(*    model is one string with "\n" line breaks, and str.strip, str.upper, *)
(*    str.split, str.startswith and the `in` substring test are operators  *)
(*    computed character by character.  parse_quiz_question is translated  *)
(*    statement by statement on top of them.                               *)
(*  - The Streamlit session is a state machine over st.session_state       *)
(*    .quiz_state.  One script run that handles one button click is one    *)
(*    action, except the Start Quiz handler, whose generation loop takes   *)
(*    one step per question slot (pc = "generating" in between, during     *)
(*    which no other handler can run, but a rerun can stop the handler).   *)
(*                                                                         *)
(* Specifications: Spec is the quiz session; SpecParse applies the parser  *)
(* to responses written from template parts; SpecChat is the chat session. *)
(***************************************************************************)
EXTENDS Integers, Sequences, FiniteSets, TLC

\* Largest quiz length explored (the page offers 3, 5, 10, 15 and 20).
MaxQuestions == 5

\* Most lines that follow the EXPLANATION line of a response under test.
MaxContinuation == 2

\* Most submits of a quiz that repeat one a rerun stopped before the
\* question was marked answered.
MaxStoppedSubmits == 1

(***************************************************************************)
(* Python str operations                                                   *)
(***************************************************************************)

\* s[i-1] in Python: the i-th character (1-based) as a one-character string.
Char(s, i) == SubSeq(s, i, i)

\* s[i-1:] in Python.
From(s, i) == SubSeq(s, i, Len(s))

\* Characters str.strip() removes: the ASCII characters for which
\* str.isspace() holds, which are space, HT, LF, VT, FF, CR, FS, GS, RS and
\* US (the last five are written as the characters themselves).
IsSpace(c) ==
    c \in {" ", "\t", "\n", "\r", "\f", "", "", "", "", ""}

RECURSIVE lstrip(_)
lstrip(s) ==
    IF s = "" THEN ""
    ELSE IF IsSpace(Char(s, 1)) THEN lstrip(From(s, 2)) ELSE s

RECURSIVE rstrip(_)
rstrip(s) ==
    IF s = "" THEN ""
    ELSE IF IsSpace(Char(s, Len(s))) THEN rstrip(SubSeq(s, 1, Len(s) - 1)) ELSE s

\* str.strip()
strip(s) == rstrip(lstrip(s))

\* str.upper() of one character (ASCII letters).
UpperChar(c) ==
    CASE c = "a" -> "A" [] c = "b" -> "B" [] c = "c" -> "C" [] c = "d" -> "D"
      [] c = "e" -> "E" [] c = "f" -> "F" [] c = "g" -> "G" [] c = "h" -> "H"
      [] c = "i" -> "I" [] c = "j" -> "J" [] c = "k" -> "K" [] c = "l" -> "L"
      [] c = "m" -> "M" [] c = "n" -> "N" [] c = "o" -> "O" [] c = "p" -> "P"
      [] c = "q" -> "Q" [] c = "r" -> "R" [] c = "s" -> "S" [] c = "t" -> "T"
      [] c = "u" -> "U" [] c = "v" -> "V" [] c = "w" -> "W" [] c = "x" -> "X"
      [] c = "y" -> "Y" [] c = "z" -> "Z" [] OTHER -> c

\* str.upper()
RECURSIVE upper(_)
upper(s) == IF s = "" THEN "" ELSE UpperChar(Char(s, 1)) \o upper(From(s, 2))

\* `sub in s`
Contains(s, sub) ==
    \E i \in 1..(Len(s) - Len(sub) + 1) : SubSeq(s, i, i + Len(sub) - 1) = sub

\* s.startswith(p)
startswith(s, p) == Len(s) >= Len(p) /\ SubSeq(s, 1, Len(p)) = p

\* Position of the first occurrence of the character c in s, 0 when absent.
RECURSIVE FindFrom(_, _, _)
FindFrom(s, c, i) ==
    IF i > Len(s) THEN 0
    ELSE IF Char(s, i) = c THEN i ELSE FindFrom(s, c, i + 1)

find(s, c) == FindFrom(s, c, 1)

\* s.split(c): the sequence of the pieces of s between occurrences of c.
RECURSIVE split(_, _)
split(s, c) ==
    LET k == find(s, c)
    IN  IF k = 0 THEN <<s>>
        ELSE <<SubSeq(s, 1, k - 1)>> \o split(From(s, k + 1), c)

\* line.split(":", 1)[1]: everything after the first colon.
AfterColon(line) == From(line, find(line, ":") + 1)

\* Python's None (also the value of selected_answer before a submit).
None == <<>>

(***************************************************************************)
(* parse_quiz_question                                                     *)
(***************************************************************************)

\* lines = [line.strip() for line in response.split('\n') if line.strip()]
RECURSIVE StripNonBlank(_)
StripNonBlank(raw) ==
    IF raw = <<>> THEN <<>>
    ELSE IF strip(Head(raw)) # ""
         THEN <<strip(Head(raw))>> \o StripNonBlank(Tail(raw))
         ELSE StripNonBlank(Tail(raw))

Lines(response) == StripNonBlank(split(response, "\n"))

\* The option prefixes and the answer letters.
Letters == <<"A", "B", "C", "D">>
LetterSet == {"A", "B", "C", "D"}

\* line.startswith(("A)", "B)", "C)", "D)"))
IsOptionLine(line) == \E l \in LetterSet : startswith(line, l \o ")")

\* options[key] = value on a dict
DictPut(d, key, value) ==
    [k \in (DOMAIN d) \cup {key} |-> IF k = key THEN value ELSE d[k]]

\* value = line[2:].strip() if len(line) > 2 else ""; a leading ")" is removed.
OptionValue(line) ==
    LET value == IF Len(line) > 2 THEN strip(From(line, 3)) ELSE ""
    IN  IF startswith(value, ")") THEN strip(From(value, 2)) ELSE value

\* for char in correct_part: if char in ['A','B','C','D']: correct = char; break
RECURSIVE FirstLetter(_, _)
FirstLetter(correct_part, correct) ==
    IF correct_part = "" THEN correct
    ELSE IF Char(correct_part, 1) \in LetterSet THEN Char(correct_part, 1)
         ELSE FirstLetter(From(correct_part, 2), correct)

\* any(keyword in next_line.upper() for keyword in [...])
Keywords == {"QUESTION:", "CORRECT:", "A)", "B)", "C)", "D)"}
IsSectionLine(next_line) == \E keyword \in Keywords : Contains(upper(next_line), keyword)

\* The inner while loop of the EXPLANATION branch: <<explanation, j>> when it
\* stops (j is 1-based here, so the loop runs while j <= len(lines)).
RECURSIVE AbsorbExplanation(_, _, _)
AbsorbExplanation(lines, j, explanation) ==
    IF j > Len(lines) THEN <<explanation, j>>
    ELSE LET next_line == strip(lines[j])
         IN  IF IsSectionLine(next_line) THEN <<explanation, j>>
             ELSE AbsorbExplanation(lines, j + 1, explanation \o " " \o next_line)

\* The outer while loop; p holds question, options, correct, explanation and
\* i is the 1-based scan position.
RECURSIVE ParseLoop(_, _, _)
ParseLoop(lines, i, p) ==
    IF i > Len(lines) THEN p
    ELSE
      LET line == strip(lines[i])
          line_upper == upper(line)
      IN
      IF Contains(line_upper, "QUESTION:") THEN
          IF Contains(line, ":") THEN
              LET question_part == strip(AfterColon(line))
              IN  IF question_part # ""
                  THEN ParseLoop(lines, i + 1, [p EXCEPT !.question = question_part])
                  ELSE IF i + 1 <= Len(lines)
                       THEN ParseLoop(lines, i + 2,
                                [p EXCEPT !.question = strip(lines[i + 1])])
                       ELSE ParseLoop(lines, i + 2, p)
          ELSE ParseLoop(lines, i + 1, p)
      ELSE IF IsOptionLine(line) THEN
          ParseLoop(lines, i + 1,
              [p EXCEPT !.options =
                  DictPut(p.options, UpperChar(Char(line, 1)), OptionValue(line))])
      ELSE IF Contains(line_upper, "CORRECT:") THEN
          ParseLoop(lines, i + 1,
              [p EXCEPT !.correct =
                  FirstLetter(upper(strip(AfterColon(line))), p.correct)])
      ELSE IF Contains(line_upper, "EXPLANATION:") THEN
          LET explanation_part == strip(AfterColon(line))
              start == IF explanation_part # "" THEN explanation_part
                       ELSE p.explanation
              r == AbsorbExplanation(lines, i + 1, start)
          IN  ParseLoop(lines, r[2], [p EXCEPT !.explanation = r[1]])
      ELSE ParseLoop(lines, i + 1, p)

\* The four locals after the scan.
Scan(response) ==
    ParseLoop(Lines(response), 1,
        [question |-> "", options |-> <<>>, correct |-> "", explanation |-> ""])

\* Mutation: the gate without the check of the correct letter.
ValidateNoCorrectCheck(p) ==
    IF p.question = "" THEN None
    ELSE IF Cardinality(DOMAIN p.options) < 4 THEN None
    ELSE p

\* Mutation: the gate without the check of the number of options.
ValidateNoOptionCount(p) ==
    IF p.question = "" THEN None
    ELSE IF p.correct \notin LetterSet THEN None
    ELSE p

\* The validation gate and the returned dict (None on rejection).
Validate(p) ==
    IF p.question = "" THEN None
    ELSE IF Cardinality(DOMAIN p.options) < 4 THEN None
    ELSE IF p.correct \notin LetterSet THEN None
    ELSE p

parse_quiz_question(response) == Validate(Scan(response))

(***************************************************************************)
(* generate_quiz_question and the language model                           *)
(***************************************************************************)

\* Texts the language model may answer with: the template with answer A, the
\* template after the preamble the prompt asks for with answer B, and a text
\* that lacks option D and the explanation.
RawA == "QUESTION: q1\nA) a1\nB) b1\nC) c1\nD) d1\nCORRECT: A\nEXPLANATION: e1"
RawB == "Hare Krishna! Here's your question:\nQUESTION: q2\nA) a2\nB) b2\nC) c2\nD) d2\nCORRECT: B\nEXPLANATION: e2"
RawMissing == "QUESTION: q3\nA) a3\nB) b3\nC) c3\nCORRECT: C"

\* What llm.invoke does: returns a text, or raises with a message.
LLMOutcomes ==
    {[raised |-> FALSE, text |-> t] : t \in {RawA, RawB, RawMissing}}
        \cup {[raised |-> TRUE, text |-> "timeout"]}

\* The returned text: response.content, or the error sentinel when llm.invoke
\* raised.
generate_quiz_question(outcome) ==
    IF outcome.raised THEN "Error generating question: " \o outcome.text
    ELSE outcome.text

\* parse_quiz_question tabulated over the texts generate_quiz_question can
\* return here, so that each text is parsed once.
Responses == {generate_quiz_question(o) : o \in LLMOutcomes}
ParseTable == [response \in Responses |-> parse_quiz_question(response)]

(***************************************************************************)
(* The quiz page: st.session_state.quiz_state and its handlers             *)
(***************************************************************************)

VARIABLES
    quiz_state,     \* st.session_state.quiz_state
    pc,             \* "render": waiting for a click; "generating": inside Start Quiz
    gen_i,          \* Start Quiz handler: slots done so far (the loop variable i)
    gen_questions,  \* Start Quiz handler: the local list `questions`
    gen_log,        \* history: per slot, the responses generated for it
    requested,      \* history: num_questions of the last Start Quiz click
    submit_log      \* history: the question index of every submit since then

quiz_vars ==
    <<quiz_state, pc, gen_i, gen_questions, gen_log, requested, submit_log>>

\* One call of parse_quiz_question on its own.
VARIABLES
    template,       \* the parts the response under test is written from
    parsed,         \* what parse_quiz_question returned for it
    parse_pc        \* "idle": no call; "call": before the call; "return": after

parse_vars == <<template, parsed, parse_pc>>

\* The chatbot page.
VARIABLES
    chat_messages,  \* st.session_state.chat_messages
    agent_calls,    \* history: agent_executor.invoke calls of the session
    last_exchange   \* history: the question and the agent outcome of the last query

chat_vars == <<chat_messages, agent_calls, last_exchange>>

vars == <<quiz_vars, parse_vars, chat_vars>>

\* HumanMessage(content) and AIMessage(content).
HumanMessage(content) == [role |-> "Human", content |-> content]
AIMessage(content) == [role |-> "Assistant", content |-> content]

\* The welcome message (its emoji is left out of the text).
welcome_msg ==
    AIMessage("Hare Krishna! I'm here to help you learn about Lord Krishna and Hindu philosophy. Ask me anything!")

\* No parser call is under way.
ParseIdle ==
    /\ template = None
    /\ parsed = None
    /\ parse_pc = "idle"

\* The chat as the first render of the chatbot page leaves it: the empty
\* list (line 178) with the welcome message appended (line 181), or the
\* empty list alone when a rerun stops that render at the access to
\* st.session_state of line 181; the key is then there and later renders
\* add no welcome message.
ChatFresh ==
    /\ chat_messages \in {<<welcome_msg>>, <<>>}
    /\ agent_calls = 0
    /\ last_exchange = None


\* The default of total_questions_selected.
DefaultTotal == 5

\* The choices of the "How many questions" selectbox, within the bound.
NumQuestionsChoices == {n \in {3, 5, 10, 15, 20} : n <= MaxQuestions}

\* The dict written at first render, at Start Quiz and at Take Another Quiz.
FreshState(total, started) ==
    [questions |-> <<>>,
     current_question_index |-> 0,
     total_questions_selected |-> total,
     score |-> 0,
     answered |-> FALSE,
     selected_answer |-> None,
     quiz_started |-> started,
     quiz_completed |-> FALSE]

\* The quiz as the first render of the quiz page leaves it.
QuizFresh ==
    /\ quiz_state = FreshState(DefaultTotal, FALSE)
    /\ pc = "render"
    /\ gen_i = 0
    /\ gen_questions = <<>>
    /\ gen_log = <<>>
    /\ requested = 0
    /\ submit_log = <<>>

Init ==
    /\ QuizFresh
    /\ ParseIdle
    /\ ChatFresh

\* The three branches of the page.
InSetup == ~quiz_state.quiz_started /\ ~quiz_state.quiz_completed
InProgress == quiz_state.quiz_started /\ ~quiz_state.quiz_completed
InCompleted ==
    /\ ~InSetup
    /\ ~InProgress
    /\ quiz_state.quiz_completed

\* if quiz_data and quiz_data.get("question") and quiz_data.get("options")
Accepted(quiz_data) ==
    /\ quiz_data # None
    /\ quiz_data.question # ""
    /\ DOMAIN quiz_data.options # {}

\* Start Quiz clicked: the state is reset with quiz_started = True and the
\* generation loop begins.
StartClick ==
    /\ pc = "render"
    /\ InSetup
    /\ \E num_questions \in NumQuestionsChoices :
          /\ quiz_state' = FreshState(num_questions, TRUE)
          /\ requested' = num_questions
    /\ pc' = "generating"
    /\ gen_i' = 0
    /\ gen_questions' = <<>>
    /\ gen_log' = <<>>
    /\ submit_log' = <<>>
    /\ UNCHANGED <<parse_vars, chat_vars>>

\* The list after one slot whose first response is r1 and whose retry, made
\* only when r1 is not accepted, answers r2.
SlotResult(questions, r1, r2) ==
    IF Accepted(ParseTable[r1]) THEN Append(questions, ParseTable[r1])
    ELSE IF Accepted(ParseTable[r2]) THEN Append(questions, ParseTable[r2])
    ELSE questions

\* The responses generated for that slot.
SlotResponses(r1, r2) == IF Accepted(ParseTable[r1]) THEN <<r1>> ELSE <<r1, r2>>

\* One iteration of `for i in range(num_questions)`.
GenerateSlot ==
    /\ pc = "generating"
    /\ gen_i < quiz_state.total_questions_selected
    /\ \E o1 \in LLMOutcomes :
          LET r1 == generate_quiz_question(o1)
          IN  IF Accepted(ParseTable[r1])
              THEN /\ gen_questions' = SlotResult(gen_questions, r1, r1)
                   /\ gen_log' = Append(gen_log, SlotResponses(r1, r1))
              ELSE \E o2 \in LLMOutcomes :
                     LET r2 == generate_quiz_question(o2)
                     IN  /\ gen_questions' = SlotResult(gen_questions, r1, r2)
                         /\ gen_log' = Append(gen_log, SlotResponses(r1, r2))
    /\ gen_i' = gen_i + 1
    /\ UNCHANGED <<quiz_state, pc, requested, submit_log>>
    /\ UNCHANGED <<parse_vars, chat_vars>>

\* What the handler stores once the loop is over.
StoreQuestions(qs, questions) ==
    IF questions # <<>> THEN [qs EXCEPT !.questions = questions]
    ELSE [qs EXCEPT !.quiz_started = FALSE]

\* After the loop: `if questions:` stores the list and reruns; otherwise the
\* failure is shown and quiz_started is cleared.
StartEnd ==
    /\ pc = "generating"
    /\ gen_i = quiz_state.total_questions_selected
    /\ quiz_state' = StoreQuestions(quiz_state, gen_questions)
    /\ pc' = "render"
    /\ gen_i' = 0
    /\ gen_questions' = <<>>
    /\ gen_log' = <<>>
    /\ UNCHANGED <<requested, submit_log>>
    /\ UNCHANGED <<parse_vars, chat_vars>>

\* What `except Exception` leaves when a statement of the try block raises.
\* The list is stored (line 287) only after a loop that gave questions, and
\* then st.success is the statement left that can raise; before that
\* nothing is stored.
RaisedState(qs, i, questions) ==
    IF i = qs.total_questions_selected /\ questions # <<>>
    THEN [qs EXCEPT !.questions = questions, !.quiz_started = FALSE]
    ELSE [qs EXCEPT !.quiz_started = FALSE]

\* `except Exception`: an exception raised inside the try block.
StartRaises ==
    /\ pc = "generating"
    /\ quiz_state' = RaisedState(quiz_state, gen_i, gen_questions)
    /\ pc' = "render"
    /\ gen_i' = 0
    /\ gen_questions' = <<>>
    /\ gen_log' = <<>>
    /\ UNCHANGED <<requested, submit_log>>
    /\ UNCHANGED <<parse_vars, chat_vars>>

\* The Start Quiz handler is cut short by a rerun. The selectboxes of the
\* page stay on screen while the handler generates; a change of one of them
\* asks for a rerun, and the running script is stopped at its next st.* call
\* (st.write at the top of a slot, st.warning before a retry, st.error after
\* an empty loop) or at its next access to st.session_state (the store of
\* line 287 after a loop that gave questions) by an exception that
\* `except Exception` does not catch. The page is then rendered again from
\* the session state as it is. Once the questions are stored the next
\* st.* call is st.success, and stopping there is StartEnd.
Rerun ==
    /\ pc = "generating"
    /\ pc' = "render"
    /\ gen_i' = 0
    /\ gen_questions' = <<>>
    /\ gen_log' = <<>>
    /\ UNCHANGED <<quiz_state, requested, submit_log>>
    /\ UNCHANGED <<parse_vars, chat_vars>>

\* `if current_index < len(questions)`: a question is on display.
QuestionShown ==
    /\ pc = "render"
    /\ InProgress
    /\ quiz_state.current_question_index < Len(quiz_state.questions)

current_question == quiz_state.questions[quiz_state.current_question_index + 1]

\* for key in sorted(options.keys()): answer_options.append(f"{key}) {options[key]}")
answer_options(question) ==
    LET keys == SelectSeq(Letters, LAMBDA l : l \in DOMAIN question.options)
    IN  [n \in 1..Len(keys) |-> keys[n] \o ") " \o question.options[keys[n]]]

\* Mutation: a correct answer is counted twice.
SubmitAnswerCountsTwice(qs, question, selected) ==
    [qs EXCEPT !.selected_answer = <<Char(selected, 1)>>,
               !.answered = TRUE,
               !.score = IF Char(selected, 1) = question.correct
                         THEN @ + 2 ELSE @]

\* The state after Submit Answer with the radio on `selected`.
SubmitAnswer(qs, question, selected) ==
    IF selected # "" THEN
        LET selected_letter == Char(selected, 1)
        IN  [qs EXCEPT !.selected_answer = <<selected_letter>>,
                       !.answered = TRUE,
                       !.score = IF selected_letter = question.correct
                                 THEN @ + 1 ELSE @]
    ELSE qs

\* The state after a Submit Answer run that a rerun stops at an access to
\* st.session_state: after the write of selected_answer (before line 333),
\* or after the write of answered as well (before line 336, which is
\* reached for the correct letter only).
SubmitStopped(qs, question, selected, writes) ==
    IF writes = 1
    THEN [qs EXCEPT !.selected_answer = <<Char(selected, 1)>>]
    ELSE [qs EXCEPT !.selected_answer = <<Char(selected, 1)>>,
                    !.answered = TRUE]

\* The states a Submit Answer run may leave: the run is complete, or a rerun
\* stops it.
SubmitResults(qs, question, selected, repeated) ==
    {SubmitAnswer(qs, question, selected)}
        \cup (IF repeated < MaxStoppedSubmits
              THEN {SubmitStopped(qs, question, selected, 1)} ELSE {})
        \cup (IF Char(selected, 1) = question.correct
              THEN {SubmitStopped(qs, question, selected, 2)} ELSE {})

Submit ==
    /\ QuestionShown
    /\ ~quiz_state.answered
    /\ \E n \in 1..Len(answer_options(current_question)) :
          /\ quiz_state' \in SubmitResults(
                  quiz_state, current_question,
                  answer_options(current_question)[n],
                  Len(submit_log)
                      - Cardinality({submit_log[k] : k \in 1..Len(submit_log)}))
    /\ submit_log' = Append(submit_log, quiz_state.current_question_index)
    /\ UNCHANGED <<pc, gen_i, gen_questions, gen_log, requested>>
    /\ UNCHANGED <<parse_vars, chat_vars>>

\* if current_index + 1 < len(questions): Next Question, else Finish Quiz.
HasNext(qs) == qs.current_question_index + 1 < Len(qs.questions)

\* The state after Next Question.
Advance(qs) ==
    [qs EXCEPT !.current_question_index = @ + 1,
               !.answered = FALSE,
               !.selected_answer = None]

\* The state after a Next Question run that a rerun stops at an access to
\* st.session_state: after the write of the index (before line 369), or
\* after the write of answered as well (before line 370).
AdvanceStopped(qs, writes) ==
    IF writes = 1
    THEN [qs EXCEPT !.current_question_index = @ + 1]
    ELSE [qs EXCEPT !.current_question_index = @ + 1,
                    !.answered = FALSE]

NextQuestion ==
    /\ QuestionShown
    /\ quiz_state.answered
    /\ HasNext(quiz_state)
    /\ quiz_state' \in {Advance(quiz_state),
                        AdvanceStopped(quiz_state, 1),
                        AdvanceStopped(quiz_state, 2)}
    /\ UNCHANGED <<pc, gen_i, gen_questions, gen_log, requested, submit_log>>
    /\ UNCHANGED <<parse_vars, chat_vars>>

\* The state after Finish Quiz.
Finish(qs) == [qs EXCEPT !.quiz_completed = TRUE]

FinishQuiz ==
    /\ QuestionShown
    /\ quiz_state.answered
    /\ ~HasNext(quiz_state)
    /\ quiz_state' = Finish(quiz_state)
    /\ UNCHANGED <<pc, gen_i, gen_questions, gen_log, requested, submit_log>>
    /\ UNCHANGED <<parse_vars, chat_vars>>

\* Mutation: the denominator is the number of questions generated.
percentageOfGenerated(qs) ==
    (2000 * qs.score + Len(qs.questions)) \div (2 * Len(qs.questions))

\* percentage = (score / total) * 100, as the page prints it with one
\* decimal: the value in tenths of a percent.
percentage(qs) ==
    (2000 * qs.score + qs.total_questions_selected)
        \div (2 * qs.total_questions_selected)

\* Mutation: the score survives the reset.
RestartStateKeepsScore ==
    [FreshState(DefaultTotal, FALSE) EXCEPT !.score = quiz_state.score]

\* The dict Take Another Quiz writes.
RestartState == FreshState(DefaultTotal, FALSE)

\* Take Another Quiz.
Restart ==
    /\ pc = "render"
    /\ InCompleted
    /\ quiz_state' = RestartState
    /\ UNCHANGED <<pc, gen_i, gen_questions, gen_log, requested, submit_log>>
    /\ UNCHANGED <<parse_vars, chat_vars>>

Next ==
    \/ StartClick
    \/ GenerateSlot
    \/ StartEnd
    \/ StartRaises
    \/ Rerun
    \/ Submit
    \/ NextQuestion
    \/ FinishQuiz
    \/ Restart

Spec == Init /\ [][Next]_vars

(***************************************************************************)
(* Properties                                                              *)
(***************************************************************************)

\* A record as the data model requires it.
ValidQuestion(q) ==
    /\ q # None
    /\ q.question # ""
    /\ DOMAIN q.options = LetterSet
    /\ q.correct \in LetterSet

\* C1: at every page render, while quiz_started holds and quiz_completed
\* does not, 0 <= current_question_index < len(questions).
C1_IndexInRange ==
    (pc = "render" /\ InProgress) =>
        /\ 0 <= quiz_state.current_question_index
        /\ quiz_state.current_question_index < Len(quiz_state.questions)

\* C2: every record in the session's question list, and in the list the Start
\* Quiz handler is building, has a non-empty question, exactly the option keys
\* A, B, C, D and a correct letter among them; a rejected parse (None) is
\* never in a list.
C2_OnlyValidQuestionsStored ==
    /\ \A n \in 1..Len(quiz_state.questions) : ValidQuestion(quiz_state.questions[n])
    /\ \A n \in 1..Len(gen_questions) : ValidQuestion(gen_questions[n])

\* C2 witness: a slot whose first response was rejected by the gate has been
\* processed and the list being built holds a question.
C2_Witness ==
    /\ pc = "generating"
    /\ gen_questions # <<>>
    /\ \E n \in 1..Len(gen_log) :
          /\ parse_quiz_question(gen_log[n][1]) = None
          /\ gen_log[n][1] = RawMissing

\* C3: a submit on an unanswered question stores the letter of the chosen
\* option, sets answered, adds 1 to score iff that letter is the question's
\* correct letter, and leaves the index and the question list alone.
C3_SubmitEffect ==
    [][(Len(submit_log') > Len(submit_log)) =>
          /\ QuestionShown
          /\ ~quiz_state.answered
          /\ \E l \in LetterSet :
                /\ quiz_state'.selected_answer = <<l>>
                /\ quiz_state'.score =
                      quiz_state.score
                          + (IF l = current_question.correct THEN 1 ELSE 0)
          /\ quiz_state'.answered
          /\ quiz_state'.current_question_index = quiz_state.current_question_index
          /\ quiz_state'.questions = quiz_state.questions]_vars

\* C4: 0 <= score <= number of submits since the last start, and once a
\* question has been answered score <= current_question_index + 1.
C4_ScoreBounds ==
    /\ 0 <= quiz_state.score
    /\ quiz_state.score <= Len(submit_log)
    /\ (submit_log # <<>>) =>
          quiz_state.score <= quiz_state.current_question_index + 1

\* C4 witness: two submits, both correct.
C4_Witness ==
    /\ InProgress
    /\ Len(submit_log) = 2
    /\ quiz_state.score = 2
    /\ quiz_state.current_question_index = 1

\* An attempt succeeds when the parser returns a record for its response.
Succeeded(response) == ParseTable[response] # None

\* What a slot with the responses rs contributes: the parse of its successful
\* attempt, or nothing.
SlotContribution(rs) ==
    LET ok == {k \in 1..Len(rs) : Succeeded(rs[k])}
    IN  IF ok = {} THEN <<>> ELSE <<ParseTable[rs[CHOOSE k \in ok : TRUE]]>>

RECURSIVE ExpectedQuestions(_)
ExpectedQuestions(log) ==
    IF log = <<>> THEN <<>>
    ELSE ExpectedQuestions(SubSeq(log, 1, Len(log) - 1))
            \o SlotContribution(log[Len(log)])

\* C5: when the Start Quiz handler ends with the session started, every one of
\* the requested slots was attempted once, and a second time exactly when the
\* first attempt failed; the stored list is, in slot order, the successful
\* attempt of each slot that had one, so its length is at most the requested
\* count and equal to it when every slot succeeded; the index is 0.
C5_StartGeneratesPerSlot ==
    [][(pc = "generating" /\ pc' = "render" /\ quiz_state'.quiz_started) =>
          /\ Len(gen_log) = requested
          /\ \A n \in 1..Len(gen_log) :
                /\ Len(gen_log[n]) \in {1, 2}
                /\ (Len(gen_log[n]) = 2) <=> ~Succeeded(gen_log[n][1])
          /\ quiz_state'.questions = ExpectedQuestions(gen_log)
          /\ Len(quiz_state'.questions) <= requested
          /\ (\A n \in 1..Len(gen_log) : SlotContribution(gen_log[n]) # <<>>)
                => Len(quiz_state'.questions) = requested
          /\ ~quiz_state'.quiz_completed
          /\ quiz_state'.current_question_index = 0]_vars

\* C6: when the Start Quiz handler ends after a loop that gave no question,
\* or by an exception raised while it generates, the session is back in
\* Setup with an empty question list; and in Setup the start action is
\* enabled.
C6_FailedStartReturnsToSetup ==
    /\ [](pc = "render" /\ InSetup => ENABLED StartClick)
    /\ [][(/\ pc = "generating"
           /\ pc' = "render"
           /\ \/ /\ gen_i = quiz_state.total_questions_selected
                 /\ gen_questions = <<>>
              \/ /\ gen_i < quiz_state.total_questions_selected
                 /\ StartRaises) =>
              /\ ~quiz_state'.quiz_started
              /\ ~quiz_state'.quiz_completed
              /\ quiz_state'.questions = <<>>]_vars

\* C7: the index grows only by Next Question: in progress, on an answered
\* question that is not the last; it grows by 1, answered and selected_answer
\* are cleared, and score, the list, the requested total and the phase flags
\* stay as they are.
C7_AdvanceEffect ==
    [][(quiz_state'.current_question_index > quiz_state.current_question_index) =>
          /\ pc = "render"
          /\ InProgress
          /\ quiz_state.answered
          /\ quiz_state.current_question_index + 1 < Len(quiz_state.questions)
          /\ quiz_state'.current_question_index =
                quiz_state.current_question_index + 1
          /\ ~quiz_state'.answered
          /\ quiz_state'.selected_answer = None
          /\ quiz_state'.score = quiz_state.score
          /\ quiz_state'.questions = quiz_state.questions
          /\ quiz_state'.total_questions_selected =
                quiz_state.total_questions_selected
          /\ quiz_state'.quiz_started
          /\ ~quiz_state'.quiz_completed]_vars

\* Number of submits recorded for question index i.
SubmitsOf(i) == Cardinality({k \in 1..Len(submit_log) : submit_log[k] = i})

\* C8: quiz_completed becomes true only by Finish Quiz, on the answered last
\* question, and changes nothing else; so in Completed every generated
\* question was submitted exactly once and
\* score <= len(questions) <= requested count.
C8_CompletedOnlyByFinish ==
    /\ [][(~quiz_state.quiz_completed /\ quiz_state'.quiz_completed) =>
             /\ QuestionShown
             /\ quiz_state.answered
             /\ quiz_state.current_question_index + 1 = Len(quiz_state.questions)
             /\ quiz_state' = [quiz_state EXCEPT !.quiz_completed = TRUE]]_vars
    /\ [](quiz_state.quiz_completed =>
             /\ \A i \in 0..(Len(quiz_state.questions) - 1) : SubmitsOf(i) = 1
             /\ Len(submit_log) = Len(quiz_state.questions)
             /\ quiz_state.score <= Len(quiz_state.questions)
             /\ Len(quiz_state.questions) <= quiz_state.total_questions_selected
             /\ quiz_state.total_questions_selected = requested)

Abs(x) == IF x < 0 THEN -x ELSE x

\* C9: in Completed the percentage shown (in tenths of a percent) is
\* 100 * score / requested count rounded to one decimal; 5 requested, 3
\* generated and 3 correct give 60.0.
C9_PercentageOfRequested ==
    InCompleted =>
        /\ 2 * Abs(percentage(quiz_state) * requested - 1000 * quiz_state.score)
              <= requested
        /\ (requested = 5 /\ Len(quiz_state.questions) = 3 /\ quiz_state.score = 3)
              => percentage(quiz_state) = 600

\* C9 witness: 5 requested, 3 generated, 3 correct.
C9_Witness ==
    /\ InCompleted
    /\ requested = 5
    /\ Len(quiz_state.questions) = 3
    /\ quiz_state.score = 3
    /\ percentage(quiz_state) = 600

\* C10: no step taken while a question list is in play (in progress, between
\* handler runs) leads to Setup; a step from Completed either leaves
\* quiz_state alone or is the restart, which clears the list, the index, the
\* score, answered, selected_answer and both flags.
C10_RestartOnlyFromCompleted ==
    [][/\ (pc = "render" /\ InProgress) =>
              ~(~quiz_state'.quiz_started /\ ~quiz_state'.quiz_completed)
       /\ (quiz_state.quiz_completed /\ quiz_state' # quiz_state) =>
              /\ quiz_state'.questions = <<>>
              /\ quiz_state'.current_question_index = 0
              /\ quiz_state'.score = 0
              /\ ~quiz_state'.answered
              /\ quiz_state'.selected_answer = None
              /\ ~quiz_state'.quiz_started
              /\ ~quiz_state'.quiz_completed]_vars

\* C10 witness: Setup reached by a restart (the submits of the finished quiz
\* are still on record).
C10_Witness ==
    /\ pc = "render"
    /\ InSetup
    /\ submit_log # <<>>
    /\ quiz_state.score = 0
    /\ quiz_state.questions = <<>>

(***************************************************************************)
(* parse_quiz_question on its own                                          *)
(*                                                                         *)
(* The responses under test are written from parts, in the order of the   *)
(* template of the generator's prompt: an optional preamble, the question  *)
(* in one of its forms, the option lines that are present, a CORRECT line  *)
(* in one of its forms, and an EXPLANATION line with the lines after it.   *)
(***************************************************************************)

\* The line the prompt asks the response to start with.
PreambleLine == "Hare Krishna! Here's your question:"

\* The texts of the fields.
QuestionText == "What is dharma?"
OptionText == [A |-> "Duty", B |-> "Wealth", C |-> "Fame", D |-> "Rest"]
ExplanationText == "Krishna teaches duty."

\* The question: absent, on the QUESTION: line, on the line after it, or as a
\* line without the marker.
QuestionForms ==
    {<<>>,
     <<"QUESTION: " \o QuestionText>>,
     <<"QUESTION:", QuestionText>>,
     <<QuestionText>>}

\* The CORRECT line: absent (""), a letter, a letter in lower case and
\* brackets, or no letter of A-D.
CorrectForms == {"", "CORRECT: A", "Correct: (b)", "CORRECT: ???"}

\* Lines that may follow the EXPLANATION line.
ContinuationPool == {"It frees the mind.", "See chapter 2 (Gita)."}

\* All sequences over S of length at most n.
RECURSIVE SeqsUpTo(_, _)
SeqsUpTo(S, n) ==
    IF n = 0 THEN {<<>>}
    ELSE LET shorter == SeqsUpTo(S, n - 1)
         IN  shorter \cup {Append(q, x) : q \in shorter, x \in S}

Templates ==
    {t \in [preamble : BOOLEAN,
            question : QuestionForms,
            options : SUBSET LetterSet,
            correct : CorrectForms,
            explanation : BOOLEAN,
            continuation : SeqsUpTo(ContinuationPool, MaxContinuation)] :
        ~t.explanation => t.continuation = <<>>}

\* "\n".join(lines)
RECURSIVE Join(_)
Join(lines) ==
    IF lines = <<>> THEN ""
    ELSE IF Len(lines) = 1 THEN lines[1]
    ELSE lines[1] \o "\n" \o Join(Tail(lines))

\* The lines of the response written from the parts t.
TemplateLines(t) ==
    (IF t.preamble THEN <<PreambleLine>> ELSE <<>>)
        \o t.question
        \o [n \in 1..Len(SelectSeq(Letters, LAMBDA l : l \in t.options)) |->
              LET l == SelectSeq(Letters, LAMBDA x : x \in t.options)[n]
              IN  l \o ") " \o OptionText[l]]
        \o (IF t.correct # "" THEN <<t.correct>> ELSE <<>>)
        \o (IF t.explanation
            THEN <<"EXPLANATION: " \o ExplanationText>> \o t.continuation
            ELSE <<>>)

\* The response: response.content of the language model.
Render(t) == Join(TemplateLines(t))

ParseInit ==
    /\ QuizFresh
    /\ ChatFresh
    /\ template \in Templates
    /\ parsed = None
    /\ parse_pc = "call"

\* quiz_data = parse_quiz_question(response)
ParseCall ==
    /\ parse_pc = "call"
    /\ parsed' = parse_quiz_question(Render(template))
    /\ parse_pc' = "return"
    /\ UNCHANGED <<template, quiz_vars, chat_vars>>

ParseNext == ParseCall

SpecParse == ParseInit /\ [][ParseNext]_vars

\* The lines have none with the marker QUESTION: (in any case).
LacksQuestion(lines) ==
    \A n \in 1..Len(lines) : ~Contains(upper(lines[n]), "QUESTION:")

\* The lines have none that begins with the option prefix of letter l.
LacksOption(lines, l) ==
    \A n \in 1..Len(lines) : ~startswith(lines[n], l \o ")")

\* The lines have none with the marker CORRECT: and a letter of A-D after
\* its colon.
LacksCorrect(lines) ==
    \A n \in 1..Len(lines) :
        ~(/\ Contains(upper(lines[n]), "CORRECT:")
          /\ \E k \in 1..Len(AfterColon(lines[n])) :
                UpperChar(Char(AfterColon(lines[n]), k)) \in LetterSet)

\* The text lacks one of the fields the gate requires.
LacksField(response) ==
    LET lines == Lines(response)
    IN  \/ LacksQuestion(lines)
        \/ \E l \in LetterSet : LacksOption(lines, l)
        \/ LacksCorrect(lines)

\* C11: for a text without a QUESTION: marker line, or without the option
\* line of one of A, B, C, D, or without a CORRECT: line naming a letter of
\* A-D, the parser returns None; and what it returns is always None or a
\* record with all its parts.
C11_MissingFieldRejected ==
    (parse_pc = "return") =>
        /\ parsed = None \/ ValidQuestion(parsed)
        /\ LacksField(Render(template)) => parsed = None

\* C11 witness: a rejected text that has the question, a correct letter and
\* the options A, B and C, and lacks only option D.
C11_Witness ==
    /\ parse_pc = "return"
    /\ parsed = None
    /\ template.options = {"A", "B", "C"}
    /\ LET lines == Lines(Render(template))
       IN  /\ ~LacksQuestion(lines)
           /\ ~LacksCorrect(lines)
           /\ LacksOption(lines, "D")

\* The template has a CORRECT line that names a letter.
NamesLetter(t) == t.correct \in {"CORRECT: A", "Correct: (b)"}

\* The five fields of the template are all there, the question on the
\* QUESTION: line.
FiveFields(t) ==
    /\ t.question = <<"QUESTION: " \o QuestionText>>
    /\ t.options = LetterSet
    /\ NamesLetter(t)
    /\ t.explanation

\* The text is the five-field template and nothing else.
WellFormed(t) == FiveFields(t) /\ ~t.preamble

\* The lines q joined to the text e, with a space before each.
RECURSIVE JoinedWith(_, _)
JoinedWith(e, q) ==
    IF q = <<>> THEN e ELSE JoinedWith(e \o " " \o Head(q), Tail(q))

\* The record the fields of the template t stand for.
TemplateRecord(t) ==
    [question |-> QuestionText,
     options |-> OptionText,
     correct |-> IF t.correct = "CORRECT: A" THEN "A" ELSE "B",
     explanation |-> JoinedWith(ExplanationText, t.continuation)]

\* C12: for a well-formed template text the parser returns the record with
\* the question after QUESTION:, the four option texts, the letter of the
\* CORRECT line, and the explanation after EXPLANATION: joined with all the
\* lines that follow it.
C12_WellFormedParsedInFull ==
    (parse_pc = "return" /\ WellFormed(template)) =>
        parsed = TemplateRecord(template)

\* C17: for a text that is the preamble line followed by the five-field
\* template, the parser returns a record whose question is the text after
\* the colon of the template's QUESTION: line.
C17_PreambleKeepsQuestion ==
    (parse_pc = "return" /\ template.preamble /\ FiveFields(template)) =>
        /\ parsed # None
        /\ parsed.question = QuestionText

(***************************************************************************)
(* The chat page (chatbot.py)                                              *)
(*                                                                         *)
(* A query is handled in one run of the page script: the Human turn is     *)
(* appended, the agent is invoked, its output is cleaned and given the     *)
(* salutation, and the Assistant turn is appended; an exception of the     *)
(* agent becomes an apologetic Assistant turn. A run stopped by a rerun    *)
(* leaves the Human turn without an Assistant turn.                        *)
(***************************************************************************)

\* Queries handled in one session.
MaxTurns == 2

Salutation == "Hare Krishna"

FallbackText ==
    "Hare Krishna! I apologize, but I'm having trouble processing your question. Please try asking in a different way."

NoResponseText == "No response generated"

\* What the user may type.
UserQuestions == {"Who is Krishna?", "What is karma?"}

\* What the agent may put under "output".
AgentOutputs ==
    {"Hare Krishna! Krishna speaks the Gita.",
     "Karma is action.",
     "hare krishna, karma is action.",
     "{\"name\": \"retrieve\", \"parameters\": {\"query\": \"karma\"}}",
     "Hare Krishna! {\"name\": \"retrieve\"}",
     "I could not retrieve a source.",
     "The three paths: {karma, bhakti, jnana}."}

\* The messages of the exceptions the agent may raise.
AgentErrors == {"Connection refused", "retrieve failed: {timeout}"}

\* The outcomes of agent_executor.invoke: a result with an output, a result
\* without one, or an exception (raised by the call or by a statement after
\* it in the try block).
AgentOutcomes ==
    {[kind |-> "output", text |-> o] : o \in AgentOutputs}
        \cup {[kind |-> "no_output", text |-> ""]}
        \cup {[kind |-> "raise", text |-> e] : e \in AgentErrors}

\* The messages of the exceptions the display call before the agent call
\* (line 212) may raise.
DisplayErrors == {"Connection refused"}

\* The outcomes of the try block of a query: those of the agent call, or an
\* exception raised before the agent is called.
TryOutcomes ==
    AgentOutcomes \cup {[kind |-> "raise_before", text |-> e] : e \in DisplayErrors}

\* The try block ended in its except arm.
Raised(outcome) == outcome.kind \in {"raise", "raise_before"}

\* agent_executor.invoke calls made in a run with this outcome.
Invocations(outcome) == IF outcome.kind = "raise_before" THEN 0 ELSE 1

\* result.get("output", "No response generated")
Output(outcome) ==
    IF outcome.kind = "output" THEN outcome.text ELSE NoResponseText

CleanArtifactsEither(ai_response) ==
    IF Contains(ai_response, "retrieve") \/ Contains(ai_response, "{")
    THEN FallbackText
    ELSE ai_response

\* Clean up any remaining tool call artifacts.
CleanArtifacts(ai_response) ==
    IF Contains(ai_response, "retrieve") /\ Contains(ai_response, "{")
    THEN FallbackText
    ELSE ai_response

EnsureSalutationAlways(ai_response) == "Hare Krishna! " \o ai_response

\* Ensure the response starts with "Hare Krishna".
EnsureSalutation(ai_response) ==
    IF ~startswith(ai_response, Salutation)
    THEN "Hare Krishna! " \o ai_response
    ELSE ai_response

\* The answer shown and stored for a result of the agent.
ComposeAnswer(outcome) == EnsureSalutation(CleanArtifacts(Output(outcome)))

\* error_msg for an exception with message e.
ErrorMessage(e) ==
    "Hare Krishna! I apologize, but I encountered an error: " \o e

\* The turns one query appends to the history.
Exchange(user_question, outcome) ==
    IF Raised(outcome)
    THEN <<HumanMessage(user_question), AIMessage(ErrorMessage(outcome.text))>>
    ELSE <<HumanMessage(user_question), AIMessage(ComposeAnswer(outcome))>>

ClearedHistoryEmpty == <<>>

\* The history the Clear Chat History button leaves.
ClearedHistory == <<welcome_msg>>

\* Queries may still be handled.
CanAsk ==
    /\ agent_calls < MaxTurns
    /\ Len(chat_messages) < 1 + 2 * MaxTurns

\* if user_question: ... (one run of the script for one query)
ChatAsk ==
    /\ CanAsk
    /\ \E user_question \in UserQuestions, outcome \in TryOutcomes :
        /\ chat_messages' = chat_messages \o Exchange(user_question, outcome)
        /\ agent_calls' = agent_calls + Invocations(outcome)
        /\ last_exchange' = [question |-> user_question, outcome |-> outcome]
    /\ UNCHANGED <<quiz_vars, parse_vars>>

\* The outcome of a query whose run was stopped.
Stopped == [kind |-> "stopped", text |-> ""]

\* The run for a query is cut short by a rerun: a widget is touched while
\* it runs, and the script is stopped at its next st.* call by an exception
\* that `except Exception` does not catch. The Human turn is appended
\* (line 197) before the first such call (line 200); the Assistant turn is
\* appended (lines 244, 254) after the last one (lines 237, 249), so a run
\* that is stopped leaves the Human turn alone. The agent was invoked when
\* the run got past line 212.
ChatRerun ==
    /\ CanAsk
    /\ \E user_question \in UserQuestions, invoked \in BOOLEAN :
        /\ chat_messages' = Append(chat_messages, HumanMessage(user_question))
        /\ agent_calls' = agent_calls + (IF invoked THEN 1 ELSE 0)
        /\ last_exchange' = [question |-> user_question, outcome |-> Stopped]
    /\ UNCHANGED <<quiz_vars, parse_vars>>

\* if st.button("Clear Chat History"): ...
ClearChat ==
    /\ chat_messages' = ClearedHistory
    /\ last_exchange' = None
    /\ UNCHANGED <<agent_calls, quiz_vars, parse_vars>>

ChatNext == ChatAsk \/ ChatRerun \/ ClearChat

SpecChat == Init /\ [][ChatNext]_vars

\* The last turn of the history.
LastTurn == chat_messages[Len(chat_messages)]

\* The raw output of the last query, when its agent call returned.
Returned ==
    /\ last_exchange # None
    /\ last_exchange.outcome.kind \in {"output", "no_output"}

\* C13: the salutation step gives a text that starts with "Hare Krishna",
\* leaves a text that already starts with it as it is, and applied twice
\* gives what it gives applied once; and every Assistant turn of the history
\* starts with "Hare Krishna".
C13_SalutationOnce ==
    /\ \A n \in 1..Len(chat_messages) :
          chat_messages[n].role = "Assistant" =>
              startswith(chat_messages[n].content, "Hare Krishna")
    /\ Returned =>
          LET raw == CleanArtifacts(Output(last_exchange.outcome))
              once == EnsureSalutation(raw)
          IN  /\ startswith(once, "Hare Krishna")
              /\ startswith(raw, "Hare Krishna") => once = raw
              /\ ~startswith(raw, "Hare Krishna") => once = "Hare Krishna! " \o raw
              /\ EnsureSalutation(once) = once
              /\ LastTurn.content = once

\* C13 witness: an output that already has the salutation was stored as it
\* was, after an earlier turn for an exception.
C13_Witness ==
    /\ Returned
    /\ last_exchange.outcome.text = "Hare Krishna! Krishna speaks the Gita."
    /\ LastTurn.content = "Hare Krishna! Krishna speaks the Gita."
    /\ Len(chat_messages) = 5
    /\ chat_messages[3].content = ErrorMessage("Connection refused")

\* C14: when the raw output has both "retrieve" and "{", the stored answer
\* is the fallback message; otherwise it is the raw output, with at most
\* the salutation before it.
C14_FallbackOnArtifacts ==
    Returned =>
        LET raw == Output(last_exchange.outcome)
        IN  IF Contains(raw, "retrieve") /\ Contains(raw, "{")
            THEN LastTurn = AIMessage(FallbackText)
            ELSE LastTurn.content \in {raw, "Hare Krishna! " \o raw}

\* C14 witness: a raw tool call was replaced by the fallback message.
C14_Witness ==
    /\ Returned
    /\ last_exchange.outcome.text =
          "{\"name\": \"retrieve\", \"parameters\": {\"query\": \"karma\"}}"
    /\ LastTurn.content = FallbackText

\* C15: a query adds one Human turn with the question and then one Assistant
\* turn, which is the composed answer when the agent returned and the
\* apologetic error turn when it raised; and the agent is invoked once.
C15_OneExchangePerQuery ==
    [][(Len(chat_messages') > Len(chat_messages) \/ agent_calls' # agent_calls) =>
          LET n == Len(chat_messages)
              x == last_exchange'
          IN  /\ Len(chat_messages') = n + 2
              /\ SubSeq(chat_messages', 1, n) = chat_messages
              /\ chat_messages'[n + 1] = HumanMessage(x.question)
              /\ chat_messages'[n + 2].role = "Assistant"
              /\ x.outcome.kind \in {"raise", "raise_before"} =>
                    chat_messages'[n + 2].content =
                        "Hare Krishna! I apologize, but I encountered an error: "
                            \o x.outcome.text
              /\ x.outcome.kind \in {"output", "no_output"} =>
                    chat_messages'[n + 2].content = ComposeAnswer(x.outcome)
              /\ agent_calls' = agent_calls + 1]_vars

\* C16: a step either keeps every turn of the history in its place and adds
\* turns at the end only, or leaves the history with the welcome turn alone.
C16_AppendOnly ==
    [][\/ /\ Len(chat_messages') >= Len(chat_messages)
          /\ SubSeq(chat_messages', 1, Len(chat_messages)) = chat_messages
       \/ chat_messages' = <<welcome_msg>>]_vars

\* C16 witness: the history was cleared after two queries.
C16_Witness ==
    /\ agent_calls = 2
    /\ last_exchange = None
    /\ chat_messages = <<welcome_msg>>

\* C18: Submit Answer is enabled only while answered is false and sets it,
\* so no question index is submitted twice between a start and the next,
\* and a submit adds at most 1 to score.
C18_NoDoubleSubmit ==
    /\ [][(Len(submit_log') > Len(submit_log)) =>
             /\ ~quiz_state.answered
             /\ quiz_state'.answered
             /\ quiz_state'.score - quiz_state.score \in {0, 1}]_vars
    /\ [](quiz_state.answered => ~ENABLED Submit)
    /\ [](\A i \in 0..(MaxQuestions - 1) : SubmitsOf(i) <= 1)

\* C19: at the start of every page render one of Start Quiz, Submit Answer,
\* Next Question, Finish Quiz and Take Another Quiz is enabled, and the
\* session is not started and uncompleted with an empty question list.
C19_NeverStuck ==
    (pc = "render") =>
        /\ ENABLED (StartClick \/ Submit \/ NextQuestion \/ FinishQuiz \/ Restart)
        /\ ~(/\ quiz_state.quiz_started
             /\ ~quiz_state.quiz_completed
             /\ quiz_state.questions = <<>>)
====
